---- MODULE Spec2Model ----
(***************************************************************************)
(* The directory / archive comparator of directoryCompare.py:              *)
(* list_all_files, calculate_hashes and CompareApp (start, run_compare,    *)
(* show_results, copy_files), over a small model of the two sources.       *)
(*                                                                         *)
(* A relative-path key "a/b" is the sequence <<"a","b">> of its            *)
(* '/'-separated parts.  A file of a directory tree is named by the        *)
(* sequence of the file-system names that lead to it; on a POSIX host a    *)
(* name may itself contain a backslash.                                    *)
(***************************************************************************)
EXTENDS Integers, Sequences, FiniteSets, TLC

\* ------------------------------------------------------------------ bounds
MaxFiles == 4      \* files of the two sources together before the first run
MaxEntries == 1    \* entries of an archive source
MaxClicks == 2     \* button presses: comparisons started and copy_files calls
PoolSize == 1      \* worker threads of the executor, scaled down from
                   \* min(32, cpu_count + 4) so that members outnumber workers

\* --------------------------------------------------------------- universe
Sides == {1, 2}
Other(i) == 3 - i

Contents == {1, 2}                     \* the byte strings a file may hold
Atoms == {"a", "b", "c"}               \* name parts without a separator
Names == Atoms \cup {"a\\b"}           \* file-system names; a\b is one name

\* The trees the sources start from are drawn from these files.
InitPaths == {<<"a">>, <<"a", "b">>, <<"a\\b">>, <<"c">>}

\* len(data): the byte string 1 is one byte longer than 8 KiB, the byte string
\* 2 is a single byte; anything else (a truncated file) is empty.
Size(data) == CASE data = 1 -> 8 * 1024 + 1 [] data = 2 -> 1 [] OTHER -> 0

\* f.read() of line 36 and filedata.read() of line 39: one call without a
\* size, which returns the whole content; the sizes of the reads made.
ReadCalls(data) == <<Size(data)>>

\* hashlib.sha256(data).hexdigest(): equal bytes give equal digests, and
\* different bytes are taken to give different digests.
Sha256(data) == <<"sha256", data>>

\* str.replace("\\", "/") on one name, read as '/'-separated parts.
NameParts(n) == IF n = "a\\b" THEN <<"a", "b">> ELSE <<n>>

RECURSIVE RelKey(_)
\* os.path.relpath(os.path.join(root, name), path).replace("\\", "/")
RelKey(p) == IF p = <<>> THEN <<>> ELSE NameParts(Head(p)) \o RelKey(Tail(p))

\* os.path.join(base, rel): every '/'-separated part of rel is one name.
JoinPath(rel) == rel

\* Proper, non-empty prefixes of a path: its ancestor directories below the root.
Parents(p) == {SubSeq(p, 1, n) : n \in 1..(Len(p) - 1)}

Last(p) == p[Len(p)]

\* ---------------------------------------------------------------- sorting
Rank(a) == CASE a = "a" -> 1 [] a = "b" -> 2 [] a = "c" -> 3 [] OTHER -> 4

RECURSIVE KeyLess(_, _)
\* Python's str order on '/'-joined keys: '/' sorts before every letter, so
\* a key sorts before each of its extensions.
KeyLess(k1, k2) ==
    IF k1 = <<>> THEN k2 # <<>>
    ELSE IF k2 = <<>> THEN FALSE
    ELSE IF Head(k1) # Head(k2) THEN Rank(Head(k1)) < Rank(Head(k2))
    ELSE KeyLess(Tail(k1), Tail(k2))

RECURSIVE SortedSeq_Descending(_)
\* A faulty variant of SortedSeq: sorted(S, reverse=True).
SortedSeq_Descending(S) ==
    IF S = {} THEN <<>>
    ELSE LET m == CHOOSE x \in S : \A y \in S \ {x} : KeyLess(y, x)
         IN <<m>> \o SortedSeq_Descending(S \ {m})

RECURSIVE SortedSeq(_)
\* sorted(S)
SortedSeq(S) ==
    IF S = {} THEN <<>>
    ELSE LET m == CHOOSE x \in S : \A y \in S \ {x} : KeyLess(x, y)
         IN <<m>> \o SortedSeq(S \ {m})

SeqToSet(s) == {s[i] : i \in DOMAIN s}

\* Subsequences of s (the selections a MULTIPLE listbox allows), as index sets.
Selections(s) == SUBSET (DOMAIN s)

RECURSIVE PickSeq(_, _, _)
\* [lb.get(i) for i in lb.curselection()]: the selected rows, top to bottom.
PickSeq(s, idx, from) ==
    IF from > Len(s) THEN <<>>
    ELSE (IF from \in idx THEN <<s[from]>> ELSE <<>>) \o PickSeq(s, idx, from + 1)

\* ---------------------------------------------------------------- sources
\* What a source path names: a directory tree, a 7z archive, a regular file
\* that is no archive, nothing at all, or the empty entry field ("unset").
EmptyFn == [x \in {} |-> 0]

DirSource(files) ==
    [kind |-> "dir", ends7z |-> FALSE, files |-> files,
     dirs |-> UNION {Parents(p) : p \in DOMAIN files}, entries |-> {}]

\* py7zr FileInfo objects of an archive, with the bytes of each member.
ArchiveSource(members) ==
    [kind |-> "archive", ends7z |-> TRUE, files |-> EmptyFn, dirs |-> {},
     entries |-> {[filename |-> k, is_directory |-> FALSE, data |-> members[k]]
                  : k \in DOMAIN members}]

PlainSource(kind, ends7z) ==
    [kind |-> kind, ends7z |-> ends7z, files |-> EmptyFn, dirs |-> {}, entries |-> {}]

\* No name is both a file and a directory.
TreeOk(D) == \A p \in D : Parents(p) \cap D = {}

\* The bytes a file may start with.  No code path opens a file whose name holds
\* a backslash (JoinPath never yields such a name), so one content stands for all.
InitContents(p) == IF \E i \in DOMAIN p : Len(NameParts(p[i])) > 1 THEN {1} ELSE Contents

InitTrees ==
    UNION {{t \in [D -> Contents] : \A p \in D : t[p] \in InitContents(p)}
           : D \in {E \in SUBSET InitPaths : Cardinality(E) <= MaxFiles /\ TreeOk(E)}}

InitArchives ==
    UNION {[K -> Contents] : K \in {E \in SUBSET {RelKey(p) : p \in InitPaths} :
                                      Cardinality(E) <= MaxEntries}}

InitSources ==
    {DirSource(t) : t \in InitTrees}
    \cup {ArchiveSource(m) : m \in InitArchives}
    \cup {PlainSource(k, z) : k \in {"file", "absent"}, z \in BOOLEAN}
    \cup {PlainSource("unset", FALSE)}

\* ------------------------------------------------------------ list_all_files
Raised(exc) == [ok |-> FALSE, exc |-> exc]
Returned(val) == [ok |-> TRUE, val |-> val]

\* py7zr.SevenZipFile(path, mode='r'): only an archive file can be opened.
OpenArchive(s) ==
    CASE s.kind = "archive" -> Returned(s.entries)
      [] s.kind = "absent"  -> Raised("FileNotFoundError")
      [] s.kind = "dir"     -> Raised("IsADirectoryError")
      [] OTHER              -> Raised("Bad7zFile")

\* archive.list(): one FileInfo per entry.  A FileInfo carries filename,
\* compressed, uncompressed, archivable, is_directory, creationtime and crc32.
ArchiveList(entries) ==
    {[filename |-> e.filename, is_directory |-> e.is_directory] : e \in entries}

\* getattr(obj, name) fails on an object that has no such attribute.
HasAttr(obj, name) == name \in DOMAIN obj

\* Lines 14-20: { file_info.filename for info in archive.list()
\*                for file_info in info.files if not file_info.is_directory }
\* evaluates info.files for every FileInfo of the listing.
ListArchive(s) ==
    LET opened == OpenArchive(s)
    IN IF ~opened.ok THEN opened
       ELSE IF \E info \in ArchiveList(opened.val) : ~HasAttr(info, "files")
            THEN Raised("AttributeError")
            ELSE Returned(UNION {{fi.filename : fi \in {x \in info.files : ~x.is_directory}}
                                 : info \in ArchiveList(opened.val)})

\* os.walk(path): every file below path; a path that is no directory yields
\* nothing, because os.walk ignores the error of listing it (onerror=None).
Walk(s) == IF s.kind = "dir" THEN DOMAIN s.files ELSE {}

\* Lines 22-26.
ListDirectory(s) == Returned({RelKey(p) : p \in Walk(s)})

\* path.lower().endswith('.7z')
IsArchivePath(s) == s.ends7z

list_all_files(s) == IF IsArchivePath(s) THEN ListArchive(s) ELSE ListDirectory(s)

\* A faulty variant of Extracted: the archive is unpacked into a directory made
\* by tempfile.mkdtemp() that nothing removes.
Extracted_Mkdtemp(s) == IF IsArchivePath(s) /\ OpenArchive(s).ok THEN {"tmp"} ELSE {}

\* The temporary directories a call of list_all_files leaves on disk: none.
\* Lines 14-20 read the archive's listing through py7zr, in memory; nothing
\* is extracted to disk (no extract / extractall, no tempfile).
Extracted(s) == {}

\* ---------------------------------------------------------- calculate_hashes
\* hash_file_from_disk: open(os.path.join(base, rel_path), 'rb') and digest.
hash_file_from_disk(s, rel) ==
    LET p == JoinPath(rel)
    IN IF s.kind = "dir" /\ p \in DOMAIN s.files
         THEN Returned(Sha256(s.files[p]))
       ELSE IF s.kind = "dir" /\ p \in s.dirs THEN Raised("IsADirectoryError")
       ELSE Raised("FileNotFoundError")

\* archive.read(targets): the bytes of the named members, by filename.
ArchiveRead(entries, targets) ==
    LET hit == {e \in entries : e.filename \in targets /\ ~e.is_directory}
    IN [k \in {e.filename : e \in hit} |->
          (CHOOSE e \in hit : e.filename = k).data]

\* hash_file_from_archive
hash_file_from_archive(filedata) == Returned(Sha256(filedata))

\* ------------------------------------------------------------------ compare
\* A faulty variant of OnlyIn: the symmetric difference on both sides.
OnlyIn_Symmetric(filesA, filesB) == (filesA \ filesB) \cup (filesB \ filesA)

\* Lines 116-119.
OnlyIn(filesA, filesB) == filesA \ filesB

\* A faulty variant of Common: every path of the first listing is handed on.
Common_All(filesA, filesB) == SortedSeq(filesA)

\* Line 119.
Common(filesA, filesB) == SortedSeq(filesA \cap filesB)

\* A faulty variant of Mismatched: the digests are compared with ==.
Mismatched_Equal(commonSeq, h1, h2) == {f \in SeqToSet(commonSeq) : h1[f] = h2[f]}

\* Lines 126-129: the common paths whose digests differ.
Mismatched(commonSeq, h1, h2) == {f \in SeqToSet(commonSeq) : h1[f] # h2[f]}

\* A faulty variant of AddMismatched: the mismatches replace the set.
AddMismatched_Assign(only, commonSeq, h1, h2) == Mismatched(commonSeq, h1, h2)

\* Lines 126-129, for one of the two result sets.
AddMismatched(only, commonSeq, h1, h2) == only \cup Mismatched(commonSeq, h1, h2)

\* --------------------------------------------------------------- copy_files
\* os.makedirs(os.path.dirname(os.path.join(dst, rel)), exist_ok=True):
\* creates the target root and every missing ancestor; fails where a file
\* (or an archive file) stands in the way.
MakeDirs(d, p) ==
    IF d.kind \in {"file", "archive"} THEN Raised("FileExistsError")
    ELSE IF \E q \in Parents(p) : q \in DOMAIN d.files THEN Raised("FileExistsError")
    ELSE Returned([d EXCEPT !.kind = "dir", !.dirs = d.dirs \cup Parents(p)])

\* open(out, 'wb').write(data)
WriteFile(d, p, data) ==
    IF p \in d.dirs THEN Raised("IsADirectoryError")
    ELSE Returned([d EXCEPT !.files =
                     [q \in DOMAIN d.files \cup {p} |-> IF q = p THEN data ELSE d.files[q]]])

\* shutil.copy2(srcp, dstp): a dstp that is a directory receives the file
\* under the base name of srcp.
Copy2(s, d, p) ==
    IF ~(s.kind = "dir" /\ p \in DOMAIN s.files)
      THEN (IF s.kind = "dir" /\ p \in s.dirs THEN Raised("IsADirectoryError")
            ELSE Raised("FileNotFoundError"))
    ELSE IF p \in d.dirs THEN WriteFile(d, p \o <<Last(p)>>, s.files[p])
    ELSE WriteFile(d, p, s.files[p])

\* One iteration of the directory branch, lines 173-177.
CopyFromDisk(s, d, rel) ==
    LET made == MakeDirs(d, JoinPath(rel))
    IN IF ~made.ok THEN [ok |-> FALSE, exc |-> made.exc, dst |-> d]
       ELSE LET c == Copy2(s, made.val, JoinPath(rel))
            IN IF c.ok THEN [ok |-> TRUE, exc |-> "", dst |-> c.val]
               ELSE [ok |-> FALSE, exc |-> c.exc, dst |-> made.val]

\* One iteration of the archive branch, lines 166-171; batch is archive.read(sel).
CopyFromArchive(batch, d, rel) ==
    IF rel \notin DOMAIN batch THEN [ok |-> FALSE, exc |-> "KeyError", dst |-> d]
    ELSE LET made == MakeDirs(d, JoinPath(rel))
         IN IF ~made.ok THEN [ok |-> FALSE, exc |-> made.exc, dst |-> d]
            ELSE LET w == WriteFile(made.val, JoinPath(rel), batch[rel])
                 IN IF w.ok THEN [ok |-> TRUE, exc |-> "", dst |-> w.val]
                    ELSE [ok |-> FALSE, exc |-> w.exc, dst |-> made.val]

CopyOne(s, d, rel) ==
    IF IsArchivePath(s) THEN CopyFromArchive(ArchiveRead(s.entries, {rel}), d, rel)
    ELSE CopyFromDisk(s, d, rel)

RECURSIVE CopyLoop(_, _, _, _)
\* The for loop over sel, from row i on: an exception ends the loop, and the
\* handler, at the row that raised.  Yields the target as it is left, the
\* rows copied and the exception, if any.
CopyLoop(s, d, sel, i) ==
    IF i > Len(sel) THEN [dst |-> d, copied |-> i - 1, attempted |-> i - 1, exc |-> ""]
    ELSE LET r == CopyOne(s, d, sel[i])
         IN IF r.ok THEN CopyLoop(s, r.dst, sel, i + 1)
            ELSE [dst |-> r.dst, copied |-> i - 1, attempted |-> i, exc |-> r.exc]

\* Lines 160-178, up to the message box.
CopyAll(s, d, sel) ==
    IF IsArchivePath(s) /\ ~OpenArchive(s).ok
      THEN [dst |-> d, copied |-> 0, attempted |-> 0, exc |-> OpenArchive(s).exc]
    ELSE CopyLoop(s, d, sel, 1)

\* -------------------------------------------------------------------- state
VARIABLES
    src,          \* src[i]: what the path of source i names on disk
    pc,           \* where the run_compare thread stands
    compare_hash, \* the mode of the current run
    files1, files2, only1, only2, common, hashes1, hashes2,  \* locals of run_compare
    hashes,       \* calculate_hashes: the result dict being filled
    futures,      \* calculate_hashes: path -> "pending" or the task's outcome
    collected,    \* calculate_hashes: futures whose result the loop has taken
    pb,           \* the progress bar: value and maximum
    prog_text,    \* the progress label
    after,        \* root.after callbacks not yet run by the UI thread
    windows,      \* the result windows shown so far
    dialog,       \* the last message box
    thread_exc,   \* the exception that ended the run_compare thread, or ""
    report,       \* what the last copy_files call did
    stable,       \* no source changed since the current run started
    tmpdirs,      \* temporary directories on disk that a run created
    callback_log, \* calculate_hashes: the calls made to progress_callback
    pb_thread,    \* the thread that made the last write to pb / prog_text
    nruns, ncopies,
    tid,          \* the number of the run that the thread in view executes
    parked,       \* the other live run_compare threads, each with its locals
    \* the file checker (directoryCompare.py, lines 186-283)
    file_list_box,  \* the lines of the pasted text
    dir_entry,      \* the directory field
    finder_disk,    \* the files under the directory that exists on disk
    result_text,    \* what the result box shows
    finder_dialog,  \* the last message box of the file checker
    \* the Features tab (plant_photo_manager.py, lines 650-1024)
    feature_mappings,  \* the committed rows of the table: id -> name, parent_id
    sqlite_sequence,   \* the largest id AUTOINCREMENT has given out
    feature_tree,      \* the Treeview: shown feature id -> id of its parent item
    add_win,           \* the open Add Feature dialogs, each with its lists
    edit_win,          \* the open Edit Feature dialogs, each with its lists
    last_removal,      \* what remove_feature did, if it was the last handler
    feature_msg        \* the last message box of the Features tab

vars == <<src, pc, compare_hash, files1, files2, only1, only2, common, hashes1,
          hashes2, hashes, futures, collected, pb, prog_text, after, windows,
          dialog, thread_exc, report, stable, tmpdirs, callback_log, pb_thread,
          nruns, ncopies, tid, parked,
          file_list_box, dir_entry, finder_disk, result_text, finder_dialog,
          feature_mappings, sqlite_sequence, feature_tree, add_win, edit_win,
          last_removal, feature_msg>>

compareVars == <<src, pc, compare_hash, files1, files2, only1, only2, common,
                 hashes1, hashes2, hashes, futures, collected, pb, prog_text,
                 after, windows, dialog, thread_exc, report, stable, tmpdirs,
                 callback_log, pb_thread, nruns, ncopies, tid, parked>>
checkerVars == <<file_list_box, dir_entry, finder_disk, result_text, finder_dialog>>
featureVars == <<feature_mappings, sqlite_sequence, feature_tree, add_win,
                 edit_win, last_removal, feature_msg>>
toolVars == <<checkerVars, featureVars>>

runLocals == <<files1, files2, only1, only2, common, hashes1, hashes2>>
poolVars == <<hashes, futures, collected, callback_log>>
uiVars == <<after, windows, dialog, report>>

\* The thread of root.mainloop(), which runs __init__, start, show_results and
\* copy_files, and the thread of line 99, which runs run_compare.
UiThread == "MainThread"
RunThread == "run_compare"

NoReport == [from |-> 0, sel |-> <<>>, copied |-> 0, attempted |-> 0, exc |-> "",
             before |-> <<>>,
             window |-> 0, all |-> FALSE]

\* The file checker after its GUI setup (lines 258-283): empty fields.
NoResult ==
    [shown |-> FALSE, total |-> 0, found |-> 0, missing |-> 0, duplicates |-> 0,
     found_files |-> EmptyFn, missing_files |-> <<>>, dups |-> EmptyFn,
     walked |-> <<>>]

CheckerStart ==
    /\ file_list_box = <<>>
    /\ dir_entry = ""
    /\ result_text = NoResult
    /\ finder_dialog = <<>>

\* The Features tab after build_feature_tab on a new database.
NoneId == 0
NoRemoval == [fid |-> NoneId, before |-> EmptyFn, raised |-> FALSE, deleted |-> <<>>]

FeatureStart ==
    /\ feature_mappings = EmptyFn
    /\ sqlite_sequence = 0
    /\ feature_tree = EmptyFn
    /\ add_win = <<>>
    /\ edit_win = <<>>
    /\ last_removal = NoRemoval
    /\ feature_msg = <<>>

\* CompareApp after __init__ (lines 71-91), apart from the source fields.
CompareStart ==
    /\ pc = "idle"
    /\ compare_hash = FALSE
    /\ files1 = {} /\ files2 = {} /\ only1 = {} /\ only2 = {}
    /\ common = <<>> /\ hashes1 = EmptyFn /\ hashes2 = EmptyFn
    /\ hashes = EmptyFn /\ futures = EmptyFn /\ collected = 0
    /\ pb = [value |-> 0, maximum |-> 100]
    /\ prog_text = <<"Idle">>
    /\ after = <<>> /\ windows = <<>>
    /\ dialog = <<>>
    /\ thread_exc = ""
    /\ report = NoReport
    /\ stable = TRUE
    /\ tmpdirs = {}
    /\ callback_log = <<>>
    /\ pb_thread = UiThread
    /\ nruns = 0 /\ ncopies = 0
    /\ tid = 0 /\ parked = <<>>

Init ==
    /\ src \in [Sides -> InitSources]
    /\ Cardinality(DOMAIN src[1].files) + Cardinality(DOMAIN src[2].files) <= MaxFiles
    /\ CheckerStart /\ finder_disk = {}
    /\ FeatureStart
    /\ CompareStart

\* update_progress(current, total, prefix), lines 101-105.
\* Every call comes from run_compare (lines 108-114, 123, 125), so the widgets
\* are written by the thread that runs run_compare.
Progress(current, total, prefix) ==
    /\ pb' = [value |-> current, maximum |-> total]
    /\ prog_text' = <<prefix, current, total>>
    /\ pb_thread' = RunThread

Running == pc \notin {"idle", "done", "dead"}

\* ------------------------------------------------------------------- start
\* Lines 94-97: an empty source field.
StartRejected ==
    /\ \E i \in Sides : src[i].kind = "unset"
    /\ dialog' = <<"Error", "Select both sources">>
    /\ UNCHANGED <<toolVars, tid, parked, src, tmpdirs, pc, compare_hash, runLocals, poolVars, pb, prog_text, pb_thread,
                   after, windows, thread_exc, report, stable, nruns, ncopies>>

\* Lines 98-99: the run_compare thread is started.
Start(mode) ==
    /\ \A i \in Sides : src[i].kind # "unset"
    /\ ~Running
    /\ nruns + ncopies < MaxClicks
    /\ nruns' = nruns + 1
    /\ pb' = [pb EXCEPT !.value = 0]
    /\ compare_hash' = mode
    /\ pc' = "list1"
    /\ thread_exc' = ""
    /\ stable' = TRUE
    /\ files1' = {} /\ files2' = {} /\ only1' = {} /\ only2' = {}
    /\ common' = <<>> /\ hashes1' = EmptyFn /\ hashes2' = EmptyFn
    /\ hashes' = EmptyFn /\ futures' = EmptyFn /\ collected' = 0
    /\ callback_log' = <<>>
    /\ pb_thread' = UiThread
    /\ tid' = nruns + 1
    /\ UNCHANGED <<toolVars, parked, src, tmpdirs, prog_text, uiVars, ncopies>>

\* ------------------------------------------------------------- run_compare
\* An exception leaves the thread; nothing in run_compare or start catches it.
Die(exc) ==
    /\ pc' = "dead"
    /\ thread_exc' = exc

\* Lines 108-110.
ListSrc1 ==
    /\ pc = "list1"
    /\ LET r == list_all_files(src[1])
       IN IF r.ok
            THEN /\ files1' = r.val
                 /\ Progress(1, 1, "Listing Src1")
                 /\ pc' = "list2"
                 /\ UNCHANGED thread_exc
            ELSE /\ Progress(0, 1, "Listing Src1")
                 /\ Die(r.exc)
                 /\ UNCHANGED files1
    /\ tmpdirs' = tmpdirs \cup Extracted(src[1])
    /\ UNCHANGED <<toolVars, tid, parked, src, compare_hash, files2, only1, only2, common, hashes1,
                   hashes2, poolVars, uiVars, stable, nruns, ncopies>>

\* Lines 112-119.
ListSrc2 ==
    /\ pc = "list2"
    /\ LET r == list_all_files(src[2])
       IN IF r.ok
            THEN /\ files2' = r.val
                 /\ Progress(1, 1, "Listing Src2")
                 /\ only1' = OnlyIn(files1, r.val)
                 /\ only2' = OnlyIn(r.val, files1)
                 /\ common' = Common(files1, r.val)
                 /\ pc' = IF compare_hash THEN "hash1" ELSE "finish"
                 /\ UNCHANGED thread_exc
            ELSE /\ Progress(0, 1, "Listing Src2")
                 /\ Die(r.exc)
                 /\ UNCHANGED <<files2, only1, only2, common>>
    /\ tmpdirs' = tmpdirs \cup Extracted(src[2])
    /\ UNCHANGED <<toolVars, tid, parked, src, compare_hash, files1, hashes1, hashes2, poolVars,
                   uiVars, stable, nruns, ncopies>>

\* ---------------------------------------------------------- calculate_hashes
Side(step) == IF step \in {"hash1", "collect1", "shutdown1"} THEN 1 ELSE 2
Collecting(i) == IF i = 1 THEN "collect1" ELSE "collect2"
ShuttingDown(i) == IF i = 1 THEN "shutdown1" ELSE "shutdown2"

\* A future is queued ("pending"), taken by a worker thread ("running"), or
\* done with a result ("ok") or an exception ("exc").
Pending == <<"pending">>
IsPending(f) == f[1] = "pending"
IsRunning(f) == f[1] = "running"
IsDone(f) == f[1] \in {"ok", "exc"}

\* A faulty variant of max_workers: one thread is started for every member.
max_workers_PerMember == MaxFiles + 1

\* ThreadPoolExecutor() of lines 45 / 56: the pool starts at most max_workers
\* threads, a number fixed when the executor is made.
max_workers == PoolSize

\* A faulty variant of EnumerateFrom1: enumerate(futures) counts from 0.
EnumerateFrom0(k) == k

\* enumerate(futures, 1), lines 50 / 61: the count given to the k-th future
\* (k from 0) of the loop.
EnumerateFrom1(k) == k + 1

\* A faulty variant of AllCollected: the loop stops one future early.
AllCollected_Early == collected + 1 >= Len(common)

\* The loop of lines 50-54 / 61-65 has taken the result of every future.
AllCollected == collected = Len(common)

RECURSIVE SubmitUpTo(_, _, _)
\* The archive branch's submissions, lines 46-49: the tasks submitted before
\* batch_data[rel] fails with KeyError, each with the bytes it was given.
SubmitUpTo(list, batch, i) ==
    IF i > Len(list) \/ list[i] \notin DOMAIN batch THEN {}
    ELSE {list[i]} \cup SubmitUpTo(list, batch, i + 1)

\* Lines 30-31 and 41-49 / 56-60: every member is submitted to the pool.
HashSubmit ==
    /\ pc \in {"hash1", "hash2"}
    /\ LET i == Side(pc)
           s == src[i]
           opened == OpenArchive(s)
           batch == ArchiveRead(opened.val, SeqToSet(common))
           sent == SubmitUpTo(common, batch, 1)
       IN IF ~IsArchivePath(s)
            THEN /\ futures' = [rel \in SeqToSet(common) |-> Pending]
                 /\ pc' = Collecting(i)
                 /\ UNCHANGED thread_exc
          ELSE IF ~opened.ok
            THEN /\ Die(opened.exc)
                 /\ UNCHANGED futures
          ELSE IF sent # SeqToSet(common)
            THEN /\ futures' = [rel \in sent |-> <<"pending", batch[rel]>>]
                 /\ pc' = ShuttingDown(i)
                 /\ thread_exc' = "KeyError"
          ELSE /\ futures' = [rel \in sent |-> <<"pending", batch[rel]>>]
               /\ pc' = Collecting(i)
               /\ UNCHANGED thread_exc
    /\ hashes' = EmptyFn
    /\ collected' = 0
    /\ callback_log' = <<>>
    /\ UNCHANGED <<toolVars, tid, parked, src, tmpdirs, compare_hash, runLocals, pb, prog_text, pb_thread,
                   uiVars, stable, nruns, ncopies>>

\* A faulty variant of HashTask: the digest depends on how many tasks of the
\* pool have already finished, as it would if the tasks shared a hash object.
HashTask_Shared(s, rel, f) ==
    LET r == IF Len(f) = 2 THEN hash_file_from_archive(f[2])
             ELSE hash_file_from_disk(s, rel)
        n == Cardinality({k \in DOMAIN futures : IsDone(futures[k])})
    IN IF r.ok THEN <<"ok", <<r.val, n>>>> ELSE <<"exc", r.exc>>

\* The outcome of one task: lines 33-39.
HashTask(s, rel, f) ==
    LET r == IF Len(f) = 2 THEN hash_file_from_archive(f[2])
             ELSE hash_file_from_disk(s, rel)
    IN IF r.ok THEN <<"ok", r.val>> ELSE <<"exc", r.exc>>

\* The futures whose task a worker thread is running.
Busy == {rel \in DOMAIN futures : IsRunning(futures[rel])}

\* A worker thread of the pool takes a queued task; the pool has a thread for
\* it only while fewer than max_workers tasks are being run.
TakeTask(rel) ==
    /\ pc \in {"collect1", "collect2", "shutdown1", "shutdown2"}
    /\ rel \in DOMAIN futures
    /\ IsPending(futures[rel])
    /\ Cardinality(Busy) < max_workers
    /\ futures' = [futures EXCEPT ![rel] = <<"running">> \o Tail(futures[rel])]
    /\ UNCHANGED <<toolVars, tid, parked, src, tmpdirs, pc, compare_hash, runLocals, hashes, collected,
                   callback_log, pb, prog_text, pb_thread, uiVars, thread_exc,
                   stable, nruns, ncopies>>

\* A faulty variant of Worker: the task opens its file with mode 'wb', which
\* truncates it, and so hashes no bytes.
Worker_Truncating(rel) ==
    /\ pc \in {"collect1", "collect2", "shutdown1", "shutdown2"}
    /\ rel \in DOMAIN futures
    /\ IsRunning(futures[rel])
    /\ futures' = [futures EXCEPT ![rel] = HashTask(src[Side(pc)], rel, futures[rel])]
    /\ LET s == src[Side(pc)]
           p == JoinPath(rel)
       IN src' = IF s.kind = "dir" /\ p \in DOMAIN s.files
                   THEN [src EXCEPT ![Side(pc)].files[p] = 0]
                 ELSE src
    /\ UNCHANGED <<toolVars, tid, parked, tmpdirs, pc, compare_hash, runLocals, hashes, collected,
                   callback_log, pb, prog_text, pb_thread, uiVars, thread_exc,
                   stable, nruns, ncopies>>

\* A faulty variant of Worker: the task stores its digest in the result dict
\* itself.
Worker_Inserting(rel) ==
    /\ pc \in {"collect1", "collect2", "shutdown1", "shutdown2"}
    /\ rel \in DOMAIN futures
    /\ IsRunning(futures[rel])
    /\ futures' = [futures EXCEPT ![rel] = HashTask(src[Side(pc)], rel, futures[rel])]
    /\ hashes' = IF futures'[rel][1] = "ok"
                   THEN [k \in DOMAIN hashes \cup {rel} |->
                           IF k = rel THEN futures'[rel][2] ELSE hashes[k]]
                 ELSE hashes
    /\ UNCHANGED <<toolVars, tid, parked, src, tmpdirs, pc, compare_hash, runLocals, collected,
                   callback_log, pb, prog_text, pb_thread, uiVars, thread_exc,
                   stable, nruns, ncopies>>

\* The worker thread runs its task to the end: the task returns its pair
\* (rel_path, digest) or raises, and touches nothing but its own future.
Worker(rel) ==
    /\ pc \in {"collect1", "collect2", "shutdown1", "shutdown2"}
    /\ rel \in DOMAIN futures
    /\ IsRunning(futures[rel])
    /\ futures' = [futures EXCEPT ![rel] = HashTask(src[Side(pc)], rel, futures[rel])]
    /\ UNCHANGED <<toolVars, tid, parked, src, tmpdirs, pc, compare_hash, runLocals, hashes, collected,
                   callback_log, pb, prog_text, pb_thread, uiVars, thread_exc,
                   stable, nruns, ncopies>>

\* One turn of the loop of lines 50-54 / 61-65: future.result() of the next
\* future in submission order, which re-raises what the task raised.
Collect ==
    /\ pc \in {"collect1", "collect2"}
    /\ collected < Len(common)
    /\ LET rel == common[collected + 1]
           f == futures[rel]
       IN /\ IsDone(f)
          /\ IF f[1] = "ok"
               THEN /\ hashes' = [k \in DOMAIN hashes \cup {rel} |->
                                    IF k = rel THEN f[2] ELSE hashes[k]]
                    /\ collected' = collected + 1
                    /\ Progress(EnumerateFrom1(collected), Len(common),
                                IF Side(pc) = 1 THEN "Hashing Src1" ELSE "Hashing Src2")
                    /\ callback_log' = Append(callback_log,
                                              <<EnumerateFrom1(collected), Len(common)>>)
                    /\ UNCHANGED <<pc, thread_exc>>
               ELSE /\ pc' = ShuttingDown(Side(pc))
                    /\ thread_exc' = f[2]
                    /\ UNCHANGED <<hashes, collected, callback_log, pb, prog_text,
                                   pb_thread>>
    /\ UNCHANGED <<toolVars, tid, parked, src, tmpdirs, compare_hash, runLocals, futures, uiVars, stable, nruns,
                   ncopies>>

\* The executor's with block is left by an exception: shutdown(wait=True)
\* waits for the submitted tasks, then the exception leaves run_compare.
Shutdown ==
    /\ pc \in {"shutdown1", "shutdown2"}
    /\ \A rel \in DOMAIN futures : IsDone(futures[rel])
    /\ pc' = "dead"
    /\ UNCHANGED <<toolVars, tid, parked, src, tmpdirs, compare_hash, runLocals, poolVars, pb, prog_text, pb_thread, uiVars,
                   thread_exc, stable, nruns, ncopies>>

\* Line 67, and for the second source lines 126-129.
HashReturn ==
    /\ pc \in {"collect1", "collect2"}
    /\ AllCollected
    /\ IF Side(pc) = 1
         THEN /\ hashes1' = hashes
              /\ pc' = "hash2"
              /\ UNCHANGED <<hashes2, only1, only2>>
         ELSE /\ hashes2' = hashes
              /\ only1' = AddMismatched(only1, common, hashes1, hashes)
              /\ only2' = AddMismatched(only2, common, hashes1, hashes)
              /\ pc' = "finish"
              /\ UNCHANGED hashes1
    /\ UNCHANGED <<toolVars, tid, parked, src, tmpdirs, compare_hash, files1, files2, common, poolVars, pb,
                   prog_text, pb_thread, uiVars, thread_exc, stable, nruns, ncopies>>

\* A faulty variant of FinishRun: the result is posted as soon as the listings
\* are compared, before the hashing.
FinishRun_Early ==
    /\ pc \in {"hash1", "finish"}
    /\ prog_text' = <<"Comparison complete">>
    /\ pb' = [pb EXCEPT !.value = pb.maximum]
    /\ pb_thread' = RunThread
    /\ after' = Append(after, [only1 |-> only1, only2 |-> only2,
                               total1 |-> Cardinality(files1),
                               total2 |-> Cardinality(files2),
                               hash |-> compare_hash, fresh |-> stable,
                               epoch |-> ncopies, run |-> tid])
    /\ pc' = "done"
    /\ UNCHANGED <<toolVars, tid, parked, src, tmpdirs, compare_hash, runLocals, poolVars, windows, dialog,
                   thread_exc, report, stable, nruns, ncopies>>

\* A faulty variant of FinishRun: the call of root.after is left out.
FinishRun_Silent ==
    /\ pc = "finish"
    /\ prog_text' = <<"Comparison complete">>
    /\ pb' = [pb EXCEPT !.value = pb.maximum]
    /\ pb_thread' = RunThread
    /\ pc' = "done"
    /\ UNCHANGED <<toolVars, tid, parked, src, tmpdirs, compare_hash, runLocals, poolVars, after, windows,
                   dialog, thread_exc, report, stable, nruns, ncopies>>

\* A faulty variant of FinishRun: the totals are taken from the difference
\* sets instead of the listings.
FinishRun_TotalsOfOnly ==
    /\ pc = "finish"
    /\ prog_text' = <<"Comparison complete">>
    /\ pb' = [pb EXCEPT !.value = pb.maximum]
    /\ pb_thread' = RunThread
    /\ after' = Append(after, [only1 |-> only1, only2 |-> only2,
                               total1 |-> Cardinality(only1),
                               total2 |-> Cardinality(only2),
                               hash |-> compare_hash, fresh |-> stable,
                               epoch |-> ncopies, run |-> tid])
    /\ pc' = "done"
    /\ UNCHANGED <<toolVars, tid, parked, src, tmpdirs, compare_hash, runLocals, poolVars, windows, dialog,
                   thread_exc, report, stable, nruns, ncopies>>

\* Lines 131-133.
FinishRun ==
    /\ pc = "finish"
    /\ prog_text' = <<"Comparison complete">>
    /\ pb' = [pb EXCEPT !.value = pb.maximum]
    /\ pb_thread' = RunThread
    /\ after' = Append(after, [only1 |-> only1, only2 |-> only2,
                               total1 |-> Cardinality(files1),
                               total2 |-> Cardinality(files2),
                               hash |-> compare_hash, fresh |-> stable,
                               epoch |-> ncopies, run |-> tid])
    /\ pc' = "done"
    /\ UNCHANGED <<toolVars, tid, parked, src, tmpdirs, compare_hash, runLocals, poolVars, windows, dialog,
                   thread_exc, report, stable, nruns, ncopies>>

\* ------------------------------------------------------------ show_results
\* Lines 135-158, run by the UI thread for the oldest root.after callback.
ShowResults ==
    /\ after # <<>>
    /\ LET a == Head(after)
       IN windows' = Append(windows,
              [lb1 |-> SortedSeq(a.only1), lb2 |-> SortedSeq(a.only2),
               total1 |-> a.total1, total2 |-> a.total2,
               hash |-> a.hash, fresh |-> a.fresh, epoch |-> a.epoch, run |-> a.run])
    /\ after' = Tail(after)
    /\ UNCHANGED <<toolVars, tid, parked, src, tmpdirs, pc, compare_hash, runLocals, poolVars, pb, prog_text, pb_thread,
                   dialog, thread_exc, report, stable, nruns, ncopies>>

\* -------------------------------------------------------------- copy_files
\* Lines 160-178: the button of list `from` in window w, with rows idx selected.
CopyFiles(w, from, idx) ==
    /\ nruns + ncopies < MaxClicks
    /\ w \in DOMAIN windows
    /\ LET lb == IF from = 1 THEN windows[w].lb1 ELSE windows[w].lb2
           to == Other(from)
       IN /\ idx \in Selections(lb)
          /\ LET sel == PickSeq(lb, idx, 1)
                 r == CopyAll(src[from], src[to], sel)
             IN /\ src' = [src EXCEPT ![to] = r.dst]
                /\ dialog' = IF r.exc = "" THEN <<"Copied", Len(sel)>> ELSE dialog
                /\ report' = [from |-> from, sel |-> sel, copied |-> r.copied,
                              attempted |-> r.attempted, exc |-> r.exc,
                              before |-> src, window |-> w,
                              all |-> (idx = DOMAIN lb)]
                /\ stable' = (stable /\ (~Running \/ r.dst = src[to]))
                /\ parked' = [k \in DOMAIN parked |->
                                [parked[k] EXCEPT !.stable = @ /\ r.dst = src[to]]]
    /\ ncopies' = ncopies + 1
    /\ UNCHANGED <<toolVars, tid, tmpdirs, pc, compare_hash, runLocals, poolVars, pb, prog_text,
                   pb_thread, after, windows, thread_exc, nruns>>

Next ==
    \/ StartRejected
    \/ \E mode \in BOOLEAN : Start(mode)
    \/ ListSrc1
    \/ ListSrc2
    \/ HashSubmit
    \/ \E rel \in DOMAIN futures : TakeTask(rel)
    \/ \E rel \in DOMAIN futures : Worker(rel)
    \/ Collect
    \/ Shutdown
    \/ HashReturn
    \/ FinishRun
    \/ ShowResults
    \/ \E w \in DOMAIN windows, from \in Sides :
          \E idx \in SUBSET (1..(MaxFiles + 1)) : CopyFiles(w, from, idx)

Spec == Init /\ [][Next]_vars

\* ------------------------------------------------- overlapping comparisons
\* start has no guard against a run in progress: every press of Start creates
\* a thread of its own (lines 98-99), whose arguments and locals belong to
\* that call of run_compare.  The widgets, the root.after queue and the disk
\* are shared.
Frame ==
    [pc |-> pc, compare_hash |-> compare_hash, files1 |-> files1,
     files2 |-> files2, only1 |-> only1, only2 |-> only2, common |-> common,
     hashes1 |-> hashes1, hashes2 |-> hashes2, hashes |-> hashes,
     futures |-> futures, collected |-> collected,
     callback_log |-> callback_log, thread_exc |-> thread_exc,
     stable |-> stable, tid |-> tid]

\* Lines 93-99 while an earlier run_compare thread is alive: that thread goes
\* on with its own locals, and a new thread starts.
StartDuring(mode) ==
    /\ \A i \in Sides : src[i].kind # "unset"
    /\ Running
    /\ nruns + ncopies < MaxClicks
    /\ parked' = Append(parked, Frame)
    /\ nruns' = nruns + 1
    /\ tid' = nruns + 1
    /\ pb' = [pb EXCEPT !.value = 0]
    /\ compare_hash' = mode
    /\ pc' = "list1"
    /\ thread_exc' = ""
    /\ stable' = TRUE
    /\ files1' = {} /\ files2' = {} /\ only1' = {} /\ only2' = {}
    /\ common' = <<>> /\ hashes1' = EmptyFn /\ hashes2' = EmptyFn
    /\ hashes' = EmptyFn /\ futures' = EmptyFn /\ collected' = 0
    /\ callback_log' = <<>>
    /\ pb_thread' = UiThread
    /\ UNCHANGED <<toolVars, src, tmpdirs, prog_text, uiVars, ncopies>>

\* The frames left parked when thread k comes into view: the thread in view
\* takes its place if it is alive and is dropped if it has ended.
Reparked(k) ==
    IF Running THEN [parked EXCEPT ![k] = Frame]
    ELSE [j \in 1..(Len(parked) - 1) |-> IF j < k THEN parked[j] ELSE parked[j + 1]]

\* A faulty variant of Switch: the difference sets are attributes of the
\* application object, shared by all runs.
Switch_SharedSets(k) ==
    /\ k \in DOMAIN parked
    /\ parked' = Reparked(k)
    /\ pc' = parked[k].pc
    /\ compare_hash' = parked[k].compare_hash
    /\ files1' = parked[k].files1 /\ files2' = parked[k].files2
    /\ common' = parked[k].common
    /\ hashes1' = parked[k].hashes1 /\ hashes2' = parked[k].hashes2
    /\ hashes' = parked[k].hashes /\ futures' = parked[k].futures
    /\ collected' = parked[k].collected
    /\ callback_log' = parked[k].callback_log
    /\ thread_exc' = parked[k].thread_exc
    /\ stable' = parked[k].stable
    /\ tid' = parked[k].tid
    /\ UNCHANGED <<toolVars, only1, only2, src, tmpdirs, pb, prog_text, pb_thread, uiVars,
                   nruns, ncopies>>

\* The scheduler lets another live run_compare thread take its next steps.
Switch(k) ==
    /\ k \in DOMAIN parked
    /\ parked' = Reparked(k)
    /\ pc' = parked[k].pc
    /\ compare_hash' = parked[k].compare_hash
    /\ files1' = parked[k].files1 /\ files2' = parked[k].files2
    /\ only1' = parked[k].only1 /\ only2' = parked[k].only2
    /\ common' = parked[k].common
    /\ hashes1' = parked[k].hashes1 /\ hashes2' = parked[k].hashes2
    /\ hashes' = parked[k].hashes /\ futures' = parked[k].futures
    /\ collected' = parked[k].collected
    /\ callback_log' = parked[k].callback_log
    /\ thread_exc' = parked[k].thread_exc
    /\ stable' = parked[k].stable
    /\ tid' = parked[k].tid
    /\ UNCHANGED <<toolVars, src, tmpdirs, pb, prog_text, pb_thread, uiVars, nruns, ncopies>>

OverlapNext ==
    \/ Next
    \/ \E mode \in BOOLEAN : StartDuring(mode)
    \/ \E k \in DOMAIN parked : Switch(k)

OverlapSpec == Init /\ [][OverlapNext]_vars

\* ============================================================ file checker
MaxLines == 2

\* The base names a pasted line or a file may have.
FinderNames == {"x", "y"}

\* A line of the pasted text: a name, or nothing, with or without blanks
\* around it.
Lines == {[pad |-> b, name |-> n] : b \in BOOLEAN, n \in FinderNames \cup {""}}

\* str.strip() of a line.
Strip(line) == line.name

\* The files the directory may hold, at most one level down.
FinderPaths == {<<"x">>, <<"y">>, <<"d", "x">>, <<"e", "x">>}

\* Line 210: the stripped, non-empty lines, repeats kept.
file_names(text) ==
    LET F[i \in 0..Len(text)] ==
            IF i = 0 THEN <<>>
            ELSE IF Strip(text[i]) # "" THEN Append(F[i - 1], Strip(text[i]))
            ELSE F[i - 1]
    IN F[Len(text)]

\* The orders in which os.walk(directory) may yield the files: top-down, the
\* files of one directory together, sub-directories and the files within a
\* directory in any order.
WalkOrders(T) ==
    {o \in [1..Cardinality(T) -> T] :
        /\ \A i, j \in DOMAIN o : i # j => o[i] # o[j]
        /\ \A i, j \in DOMAIN o : Len(o[i]) < Len(o[j]) => i < j
        /\ \A i, j, k \in DOMAIN o :
              (i < j /\ j < k /\ Parents(o[i]) = Parents(o[k]))
                 => Parents(o[j]) = Parents(o[i])}

\* Lines 216-225: the loop over the walk, from position i on.
RECURSIVE Search(_, _, _, _, _)
Search(o, names, found, dups, i) ==
    IF i > Len(o) THEN [found_files |-> found, dups |-> dups]
    ELSE LET f == Last(o[i])
         IN IF f \notin SeqToSet(names) THEN Search(o, names, found, dups, i + 1)
            ELSE IF f \in DOMAIN found
              THEN Search(o, names, found,
                          [n \in DOMAIN dups \cup {f} |->
                              IF n = f
                                THEN (IF f \in DOMAIN dups THEN Append(dups[f], o[i])
                                      ELSE <<o[i]>>)
                                ELSE dups[n]],
                          i + 1)
            ELSE Search(o, names,
                        [n \in DOMAIN found \cup {f} |->
                            IF n = f THEN o[i] ELSE found[n]],
                        dups, i + 1)

\* Lines 228-230: the requested names that were not found, repeats kept.
missing_files(names, found) ==
    LET M[i \in 0..Len(names)] ==
            IF i = 0 THEN <<>>
            ELSE IF names[i] \notin DOMAIN found THEN Append(M[i - 1], names[i])
            ELSE M[i - 1]
    IN M[Len(names)]

\* sum(len(v) for v in duplicates.values())
RECURSIVE SumLen(_, _)
SumLen(d, K) ==
    IF K = {} THEN 0
    ELSE LET k == CHOOSE x \in K : TRUE IN Len(d[k]) + SumLen(d, K \ {k})

\* The user replaces the text of the list box.
PasteList(text) ==
    /\ file_list_box' = text
    /\ UNCHANGED <<dir_entry, finder_disk, result_text, finder_dialog>>
    /\ UNCHANGED <<compareVars, featureVars>>

\* select_directory, lines 192-196, or typing into the field.
SelectDirectory(path) ==
    /\ dir_entry' = path
    /\ UNCHANGED <<file_list_box, finder_disk, result_text, finder_dialog>>
    /\ UNCHANGED <<compareVars, featureVars>>

\* os.path.isdir(directory): "tree" is the directory on disk.
IsDir(path) == path = "tree"

\* check_files, lines 199-255.
check_files ==
    /\ LET names == file_names(file_list_box)
       IN IF names = <<>>
            THEN /\ finder_dialog' = <<"Error", "Please paste a list of file names.">>
                 /\ UNCHANGED <<file_list_box, dir_entry, finder_disk, result_text>>
          ELSE IF dir_entry = "" \/ ~IsDir(dir_entry)
            THEN /\ finder_dialog' = <<"Error", "Please select a valid directory.">>
                 /\ UNCHANGED <<file_list_box, dir_entry, finder_disk, result_text>>
          ELSE \E o \in WalkOrders(finder_disk) :
                 LET r == Search(o, names, EmptyFn, EmptyFn, 1)
                     m == missing_files(names, r.found_files)
                 IN /\ result_text' =
                          [shown |-> TRUE, total |-> Len(names),
                           found |-> Cardinality(DOMAIN r.found_files),
                           missing |-> Len(m),
                           duplicates |-> SumLen(r.dups, DOMAIN r.dups),
                           found_files |-> r.found_files, missing_files |-> m,
                           dups |-> r.dups, walked |-> o]
                    /\ UNCHANGED <<file_list_box, dir_entry, finder_disk, finder_dialog>>
    /\ UNCHANGED <<compareVars, featureVars>>

CheckerInit ==
    /\ src = [i \in Sides |-> PlainSource("unset", FALSE)]
    /\ CompareStart
    /\ CheckerStart
    /\ finder_disk \in SUBSET FinderPaths
    /\ FeatureStart

CheckerNext ==
    \/ \E text \in UNION {[1..n -> Lines] : n \in 0..MaxLines} : PasteList(text)
    \/ \E path \in {"", "tree", "nowhere"} : SelectDirectory(path)
    \/ check_files

CheckerSpec == CheckerInit /\ [][CheckerNext]_vars

\* ============================================================ Features tab
\* plant_photo_manager.py.  Database errors are modelled where a handler's
\* outcome depends on them: in remove_feature.
MaxFeatures == 3
MaxDialogs == 1

FeatureNames == {"f", "g"}

\* ORDER BY feature_name compares the names.
NameRank(n) == IF n = "f" THEN 1 ELSE 2

\* INSERT INTO feature_mappings (feature_name, parent_id): the row gets the
\* next id of the AUTOINCREMENT sequence.
InsertRow(t, seq, name, parent) ==
    [i \in DOMAIN t \cup {seq + 1} |->
        IF i = seq + 1 THEN [feature_name |-> name, parent_id |-> parent] ELSE t[i]]

\* UPDATE feature_mappings SET parent_id=? WHERE id=?
UpdateParent(t, id, parent) ==
    [i \in DOMAIN t |-> IF i = id THEN [t[i] EXCEPT !.parent_id = parent] ELSE t[i]]

\* UPDATE feature_mappings SET feature_name=?, parent_id=? WHERE id=?
UpdateRow(t, id, name, parent) ==
    [i \in DOMAIN t |->
        IF i = id THEN [feature_name |-> name, parent_id |-> parent] ELSE t[i]]

\* SELECT id FROM feature_mappings WHERE parent_id=?
ChildIds(t, fid) == {i \in DOMAIN t : t[i].parent_id = fid}

\* refresh_feature_tree / populate_tree: the tree is emptied and filled by
\* insert_children(None), which inserts each child of an inserted row under
\* that row's item.  todo holds the rows whose turn is still to come.
RECURSIVE insert_children(_, _, _)
insert_children(t, todo, tree) ==
    IF todo = {} THEN tree
    ELSE LET fid == CHOOSE x \in todo : TRUE
         IN insert_children(t, (todo \ {fid}) \cup ChildIds(t, fid),
                            [i \in DOMAIN tree \cup {fid} |->
                                IF i = fid THEN t[fid].parent_id ELSE tree[i]])

refresh_feature_tree(t) == insert_children(t, ChildIds(t, NoneId), EmptyFn)

\* The order in which delete_feature_recursive issues its DELETEs: the
\* children's sub-trees first, then the row itself.
\* A faulty variant of delete_feature_recursive: only the row itself.
delete_feature_recursive_Flat(t, fid) == <<fid>>

RECURSIVE delete_feature_recursive(_, _)
delete_feature_recursive(t, fid) ==
    LET Each[kids \in SUBSET ChildIds(t, fid)] ==
            IF kids = {} THEN <<>>
            ELSE LET k == CHOOSE x \in kids : TRUE
                 IN delete_feature_recursive(t, k) \o Each[kids \ {k}]
    IN Each[ChildIds(t, fid)] \o <<fid>>

\* The table once the DELETEs of seq are committed.
Deleted(t, seq) == [i \in DOMAIN t \ SeqToSet(seq) |-> t[i]]

\* The lists a dialog may get from
\* SELECT id, feature_name FROM feature_mappings ORDER BY feature_name:
\* rows of equal name come in an order the query does not fix.
OrderedByName(t) ==
    {l \in [1..Cardinality(DOMAIN t) -> [id : DOMAIN t, name : FeatureNames]] :
        /\ \A i \in DOMAIN l : l[i].name = t[l[i].id].feature_name
        /\ \A i, j \in DOMAIN l : i < j =>
              /\ l[i].id # l[j].id
              /\ NameRank(l[i].name) <= NameRank(l[j].name)}

\* feature_ids[feature_names.index(choice)]: the first entry of that name.
IdOfChoice(l, choice) ==
    IF choice = "(None)" THEN NoneId
    ELSE l[CHOOSE i \in DOMAIN l :
              /\ l[i].name = choice
              /\ \A j \in DOMAIN l : l[j].name = choice => i <= j].id

Without(s, d) == [j \in 1..(Len(s) - 1) |-> IF j < d THEN s[j] ELSE s[j + 1]]

OpenDialogs == Len(add_win) + Len(edit_win)

\* add_feature, lines 783-811 and 844: the dialog opens with the lists.
add_feature ==
    /\ OpenDialogs < MaxDialogs
    /\ \E l \in OrderedByName(feature_mappings) : add_win' = Append(add_win, l)
    /\ last_removal' = NoRemoval
    /\ UNCHANGED <<feature_mappings, sqlite_sequence, feature_tree, edit_win, feature_msg>>
    /\ UNCHANGED <<compareVars, checkerVars>>

\* save_new_feature, lines 813-842, of dialog d.
save_new_feature(d, name, parent_choice, child_choice) ==
    /\ d \in DOMAIN add_win
    /\ {parent_choice, child_choice}
          \subseteq {"(None)"} \cup {add_win[d][i].name : i \in DOMAIN add_win[d]}
    /\ last_removal' = NoRemoval
    /\ IF name = ""
         THEN /\ feature_msg' = <<"Error", "Feature name cannot be empty.">>
              /\ UNCHANGED <<feature_mappings, sqlite_sequence, feature_tree,
                             add_win, edit_win>>
         ELSE /\ sqlite_sequence < MaxFeatures
              /\ LET parent_id == IdOfChoice(add_win[d], parent_choice)
                     child_id == IdOfChoice(add_win[d], child_choice)
                     new_id == sqlite_sequence + 1
                     inserted == InsertRow(feature_mappings, sqlite_sequence,
                                           name, parent_id)
                     t == IF child_id # NoneId
                            THEN UpdateParent(inserted, child_id, new_id)
                            ELSE inserted
                 IN /\ feature_mappings' = t
                    /\ sqlite_sequence' = new_id
                    /\ feature_tree' = refresh_feature_tree(t)
              /\ add_win' = Without(add_win, d)
              /\ UNCHANGED <<edit_win, feature_msg>>
    /\ UNCHANGED <<compareVars, checkerVars>>

\* edit_feature, lines 846-886 and 911; item = NoneId: nothing is selected.
edit_feature(item) ==
    /\ last_removal' = NoRemoval
    /\ IF item = NoneId
         THEN /\ feature_msg' = <<"Select Feature", "Please select a feature to edit.">>
              /\ UNCHANGED <<feature_mappings, sqlite_sequence, feature_tree,
                             add_win, edit_win>>
         ELSE /\ item \in DOMAIN feature_tree
              /\ OpenDialogs < MaxDialogs
              /\ edit_win' = Append(edit_win,
                                    [feature_id |-> item,
                                     parent_ids |-> DOMAIN feature_mappings \ {item}])
              /\ UNCHANGED <<feature_mappings, sqlite_sequence, feature_tree,
                             add_win, feature_msg>>
    /\ UNCHANGED <<compareVars, checkerVars>>

\* save_edit, lines 888-909, of dialog d.
save_edit(d, new_name, new_parent_id) ==
    /\ d \in DOMAIN edit_win
    /\ new_parent_id \in {NoneId} \cup edit_win[d].parent_ids
    /\ last_removal' = NoRemoval
    /\ IF new_name = ""
         THEN /\ feature_msg' = <<"Error", "Feature name cannot be empty.">>
              /\ UNCHANGED <<feature_mappings, sqlite_sequence, feature_tree,
                             add_win, edit_win>>
         ELSE /\ LET t == UpdateRow(feature_mappings, edit_win[d].feature_id,
                                     new_name, new_parent_id)
                 IN /\ feature_mappings' = t
                    /\ feature_tree' = refresh_feature_tree(t)
              /\ edit_win' = Without(edit_win, d)
              /\ UNCHANGED <<sqlite_sequence, add_win, feature_msg>>
    /\ UNCHANGED <<compareVars, checkerVars>>

\* The user closes a dialog without saving.
close_dialog(kind, d) ==
    /\ IF kind = "add"
         THEN d \in DOMAIN add_win /\ add_win' = Without(add_win, d)
                /\ UNCHANGED edit_win
         ELSE d \in DOMAIN edit_win /\ edit_win' = Without(edit_win, d)
                /\ UNCHANGED add_win
    /\ last_removal' = NoRemoval
    /\ UNCHANGED <<feature_mappings, sqlite_sequence, feature_tree, feature_msg>>
    /\ UNCHANGED <<compareVars, checkerVars>>

\* insert_between_feature, lines 913-956; new_name = "": the dialog was
\* cancelled or left empty.
insert_between_feature(item, new_name) ==
    /\ last_removal' = NoRemoval
    /\ IF item = NoneId
         THEN /\ feature_msg' = <<"No selection", "Select a feature to insert after.">>
              /\ UNCHANGED <<feature_mappings, sqlite_sequence, feature_tree,
                             add_win, edit_win>>
         ELSE /\ item \in DOMAIN feature_tree
              /\ new_name # ""
              /\ sqlite_sequence < MaxFeatures
              /\ LET parent_item == feature_tree[item]
                     new_id == sqlite_sequence + 1
                 IN /\ feature_mappings' = InsertRow(feature_mappings, sqlite_sequence,
                                                     new_name, parent_item)
                    /\ sqlite_sequence' = new_id
                    /\ feature_tree' = [i \in DOMAIN feature_tree \cup {new_id} |->
                                          IF i = new_id THEN parent_item
                                          ELSE feature_tree[i]]
              /\ UNCHANGED <<add_win, edit_win, feature_msg>>
    /\ UNCHANGED <<compareVars, checkerVars>>

\* remove_feature, lines 959-993.  done: the DELETEs executed when the
\* handler leaves the try block; raised: it left by an exception.
remove_feature(item, confirm, raised, done) ==
    /\ IF item = NoneId
         THEN /\ feature_msg' = <<"Select Feature", "Please select a feature to remove.">>
              /\ last_removal' = NoRemoval
              /\ UNCHANGED <<feature_mappings, sqlite_sequence, feature_tree,
                             add_win, edit_win>>
       ELSE /\ item \in DOMAIN feature_tree
            /\ IF ~confirm
                 THEN /\ feature_msg' = <<"Confirm Delete", "no">>
                      /\ last_removal' = NoRemoval
                      /\ UNCHANGED <<feature_mappings, sqlite_sequence, feature_tree,
                                     add_win, edit_win>>
                 ELSE LET seq == delete_feature_recursive(feature_mappings, item)
                      IN /\ done \in 0..Len(seq)
                         /\ ~raised => done = Len(seq)
                         /\ last_removal' = [fid |-> item, before |-> feature_mappings,
                                             raised |-> raised,
                                             deleted |-> SubSeq(seq, 1, done)]
                         /\ IF raised
                              THEN /\ feature_msg' = <<"Database Error", "Error deleting feature">>
                                   /\ UNCHANGED <<feature_mappings, feature_tree>>
                              ELSE /\ feature_mappings' = Deleted(feature_mappings, seq)
                                   /\ feature_tree' =
                                         refresh_feature_tree(Deleted(feature_mappings, seq))
                                   /\ UNCHANGED feature_msg
                         /\ UNCHANGED <<sqlite_sequence, add_win, edit_win>>
    /\ UNCHANGED <<compareVars, checkerVars>>

FeatureInit ==
    /\ src = [i \in Sides |-> PlainSource("unset", FALSE)]
    /\ CompareStart
    /\ CheckerStart /\ finder_disk = {}
    /\ FeatureStart

Items == DOMAIN feature_tree \cup {NoneId}

FeatureNext ==
    \/ add_feature
    \/ \E d \in DOMAIN add_win, name \in FeatureNames \cup {""},
          parent_choice \in FeatureNames \cup {"(None)"},
          child_choice \in FeatureNames \cup {"(None)"} :
            save_new_feature(d, name, parent_choice, child_choice)
    \/ \E item \in Items : edit_feature(item)
    \/ \E d \in DOMAIN edit_win, name \in FeatureNames \cup {""},
          p \in 0..MaxFeatures : save_edit(d, name, p)
    \/ \E kind \in {"add", "edit"}, d \in 1..MaxDialogs : close_dialog(kind, d)
    \/ \E item \in Items, name \in FeatureNames \cup {""} :
          insert_between_feature(item, name)
    \/ \E item \in Items, confirm \in BOOLEAN, raised \in BOOLEAN,
          done \in 0..MaxFeatures : remove_feature(item, confirm, raised, done)

FeatureSpec == FeatureInit /\ [][FeatureNext]_vars

\* The run_compare thread, the worker threads of the pool and the Tk event
\* loop all keep running: a step of theirs that stays possible is taken.  The
\* user's button presses (start, copy_files) are under no such obligation.
FairSpec ==
    /\ Spec
    /\ WF_vars(ListSrc1) /\ WF_vars(ListSrc2)
    /\ WF_vars(HashSubmit)
    /\ WF_vars(\E rel \in DOMAIN futures : TakeTask(rel))
    /\ WF_vars(\E rel \in DOMAIN futures : Worker(rel))
    /\ WF_vars(Collect) /\ WF_vars(Shutdown) /\ WF_vars(HashReturn)
    /\ WF_vars(FinishRun)
    /\ WF_vars(ShowResults)

\* ================================================================== claims
\* The comparison of the current run is complete (lines 116-129 are done).
Compared == pc \in {"finish", "done"}

\* Two result windows of runs over the same, unchanged sources.
SameSources(i, j) ==
    /\ windows[i].fresh /\ windows[j].fresh
    /\ windows[i].epoch = windows[j].epoch

RowsOf(lb) == SeqToSet(lb)

\* C1: in name mode onlyInA is exactly the keys of listing A that are not keys
\* of listing B, and onlyInB the reverse, so neither shares a key with the
\* other listing, whatever the files hold; the window shows these sets.
C1_NameDifference ==
    (Compared /\ ~compare_hash) =>
        /\ \A k \in files1 \cup files2 :
              /\ k \in only1 <=> (k \in files1 /\ k \notin files2)
              /\ k \in only2 <=> (k \in files2 /\ k \notin files1)
        /\ only1 \subseteq files1 /\ only2 \subseteq files2
        /\ only1 \cap files2 = {} /\ only2 \cap files1 = {}
        /\ \A w \in DOMAIN windows : windows[w].run = nruns =>
              /\ RowsOf(windows[w].lb1) = only1
              /\ RowsOf(windows[w].lb2) = only2

\* A name-mode result with a path on each side only and a common path whose
\* bytes differ between the sources.
C1_Witness ==
    /\ pc = "done" /\ ~compare_hash
    /\ only1 # {} /\ only2 # {}
    /\ \E w \in DOMAIN windows : windows[w].run = nruns /\ windows[w].lb1 # <<>>
    /\ \E f \in files1 \cap files2 :
          /\ f \in DOMAIN src[1].files /\ f \in DOMAIN src[2].files
          /\ src[1].files[f] # src[2].files[f]

\* C2: in hash mode a path of both listings is in onlyInA and in onlyInB when
\* its two digests differ and in neither when they are equal; in name mode a
\* path of both listings is in neither.
C2_HashMismatch ==
    Compared =>
        \A f \in files1 \cap files2 :
            IF compare_hash
              THEN IF hashes1[f] # hashes2[f]
                     THEN f \in only1 /\ f \in only2
                     ELSE f \notin only1 /\ f \notin only2
              ELSE f \notin only1 /\ f \notin only2

\* A hash-mode result with one common path of differing bytes, reported on
\* both sides, and one of equal bytes, reported on neither.
C2_Witness ==
    /\ pc = "done" /\ compare_hash
    /\ \E f, g \in files1 \cap files2 :
          /\ hashes1[f] # hashes2[f] /\ f \in only1 \cap only2
          /\ hashes1[g] = hashes2[g] /\ g \notin only1 \cup only2

\* C3: over the same listings the hash-mode onlyInA contains the name-mode
\* onlyInA, and likewise onlyInB: mismatches add entries and remove none.
C3_HashSuperset ==
    /\ (Compared /\ compare_hash) =>
          /\ (files1 \ files2) \subseteq only1
          /\ (files2 \ files1) \subseteq only2
    /\ \A i, j \in DOMAIN windows :
          (~windows[i].hash /\ windows[j].hash /\ SameSources(i, j)) =>
              /\ RowsOf(windows[i].lb1) \subseteq RowsOf(windows[j].lb1)
              /\ RowsOf(windows[i].lb2) \subseteq RowsOf(windows[j].lb2)

\* A name-mode and a hash-mode window over the same sources, where the name
\* result is not empty and the hash result adds a mismatch to it.
C3_Witness ==
    \E i, j \in DOMAIN windows :
        /\ ~windows[i].hash /\ windows[j].hash /\ SameSources(i, j)
        /\ windows[i].lb1 # <<>>
        /\ RowsOf(windows[j].lb1) \ RowsOf(windows[i].lb1) # {}

\* C4: two hash-mode runs over unchanged sources show the same onlyInA and the
\* same onlyInB, however the pool threads were scheduled in either run.
C4_HashIdempotent ==
    \A i, j \in DOMAIN windows :
        (windows[i].hash /\ windows[j].hash /\ SameSources(i, j)) =>
            /\ RowsOf(windows[i].lb1) = RowsOf(windows[j].lb1)
            /\ RowsOf(windows[i].lb2) = RowsOf(windows[j].lb2)

\* Two hash-mode windows over the same sources, each run having hashed two
\* members per source, with a mismatch among them.
C4_Witness ==
    \E i, j \in DOMAIN windows :
        /\ i < j /\ windows[i].hash /\ windows[j].hash /\ SameSources(i, j)
        /\ Len(common) = 2
        /\ windows[j].lb1 # <<>>

\* The keys a fresh listing of source i would give now.
Relisted(i) == list_all_files(src[i])

\* The last copy_files call had every row of the onlyInA list of a name-mode
\* window selected, the window showed the sources as they were, and the call
\* copied every row without an exception.
CopiedAllOnlyInA ==
    /\ report.from # 0
    /\ report.all
    /\ report.exc = ""
    /\ ~windows[report.window].hash
    /\ windows[report.window].fresh
    /\ windows[report.window].epoch = ncopies - 1
    /\ ~Running

\* C5: after copy(onlyInA, A, B_root) succeeded for all paths, listing both
\* sources again and comparing by name gives an empty onlyInA.
C5_RoundTrip ==
    CopiedAllOnlyInA =>
        /\ Relisted(report.from).ok /\ Relisted(Other(report.from)).ok
        /\ Relisted(report.from).val \ Relisted(Other(report.from)).val = {}

\* Directory d and archive z hold the identical file tree: the same relative
\* paths with the same bytes.
SameTree(d, z) ==
    /\ d.kind = "dir" /\ z.kind = "archive"
    /\ \A p \in DOMAIN d.files : RelKey(p) = p
    /\ {<<p, d.files[p]>> : p \in DOMAIN d.files}
         = {<<e.filename, e.data>> : e \in {x \in z.entries : ~x.is_directory}}

\* C6: a hash-mode run over a directory and a 7z archive that hold the
\* identical file tree ends with onlyInA and onlyInB both empty.
C6_ArchiveTransparency ==
    \A i \in Sides :
        (SameTree(src[i], src[Other(i)]) /\ compare_hash /\ stable
            /\ pc \in {"finish", "done", "dead"})
        => (pc # "dead" /\ only1 = {} /\ only2 = {})

\* C7: a failure on one path does not end the copy: every selected path is
\* attempted, the ones after a failing path too.
C7_CopyContinues ==
    report.from # 0 => report.attempted = Len(report.sel)

\* C8: a member that cannot be read does not abort hashAll: the exception of
\* its task does not leave calculate_hashes, and the run goes on with the
\* digests of the other members.
C8_HashFailureIsolated ==
    (\E rel \in DOMAIN futures : futures[rel][1] = "exc")
        => pc \notin {"shutdown1", "shutdown2", "dead"}

\* A source the Lister supports: an existing directory, or a 7z archive file.
ValidSource(s) == s.kind = "dir" \/ (s.kind = "archive" /\ s.ends7z)

\* The run is past the listing of source i, which returned a listing.
ListingReturned(i) ==
    IF i = 1 THEN pc \in {"list2", "hash1", "collect1", "hash2", "collect2", "finish"}
    ELSE pc \in {"hash1", "collect1", "hash2", "collect2", "finish"}

\* C9: the Lister returns a listing only for a valid source; for a path that
\* does not exist, or that is neither a directory nor a supported archive, it
\* fails and returns no listing, not even an empty one.
C9_ListerRejects ==
    \A i \in Sides : (stable /\ ListingReturned(i)) => ValidSource(src[i])

\* C10: when the listing of either source fails (a bad source path, a broken
\* archive) the run ends there: no hashing is started and no DifferenceSet is
\* put together or handed to the caller.
C10_ListingFatal ==
    (stable /\ Running /\ \E i \in Sides : ~ValidSource(src[i]))
        => pc \in {"list1", "list2"}

\* The run_compare thread has ended, by returning or by an exception.
RunEnded == pc \in {"done", "dead"}

\* C11: when a comparison run has ended, normally or by an exception raised
\* while listing, hashing or comparing, no temporary extraction directory made
\* by the run is left on disk; and none is removed while the run still goes on.
C11_NoTempDirLeft ==
    /\ [](RunEnded => tmpdirs = {})
    /\ [][Running => tmpdirs \subseteq tmpdirs']_vars

\* A hash-mode run over an archive source has ended by an exception.
C11_Witness ==
    /\ pc = "dead" /\ compare_hash /\ thread_exc # ""
    /\ \E i \in Sides : src[i].kind = "archive" /\ src[i].entries # {}

\* C12: listing, hashing and comparing change neither source: every step that
\* changes a file or an entry of a source is a copy_files call.
C12_SourcesReadOnly == [][src' # src => ncopies' = ncopies + 1]_vars

\* A hash-mode run that listed both sources and hashed two members of each has
\* ended, and no copy was made.
C12_Witness ==
    /\ pc = "done" /\ compare_hash /\ ncopies = 0
    /\ Len(common) = 2 /\ DOMAIN hashes1 = SeqToSet(common)
    /\ DOMAIN hashes2 = SeqToSet(common)

\* The futures of the current calculate_hashes call whose task has ended.
Finished == {rel \in DOMAIN futures : IsDone(futures[rel])}

\* calculate_hashes has returned its dict, for source 1 or for both sources.
HashReturned == compare_hash /\ pc \in {"hash2", "finish", "done"}

\* C13: over n members and without a failure, progress_callback is called n
\* times, the k-th call with (k, n), so that 0 < completed <= total and the
\* counts rise by one; and the call with count i is made only when at least i
\* tasks have ended.
C13_ProgressCounts ==
    /\ \A k \in DOMAIN callback_log :
          /\ callback_log[k] = <<k, Len(common)>>
          /\ 0 < callback_log[k][1] /\ callback_log[k][1] <= callback_log[k][2]
    /\ Len(callback_log) <= Cardinality(Finished)
    /\ HashReturned => Len(callback_log) = Len(common)

\* calculate_hashes has returned after two members, with the calls (1, 2), (2, 2).
C13_Witness ==
    /\ HashReturned /\ Len(common) = 2
    /\ callback_log = << <<1, 2>>, <<2, 2>> >>
    /\ pb = [value |-> 2, maximum |-> 2]

\* C14: calculate_hashes is left, by return or by an exception, only when
\* every submitted task has ended, and a returned dict has one digest for each
\* requested path, the one its task gave, and no other key.
C14_ReturnsAfterAll ==
    /\ (HashReturned \/ pc = "dead") => Finished = DOMAIN futures
    /\ HashReturned =>
          /\ DOMAIN hashes = SeqToSet(common)
          /\ DOMAIN futures = SeqToSet(common)
          /\ \A rel \in DOMAIN hashes : futures[rel] = <<"ok", hashes[rel]>>
    /\ (HashReturned /\ pc # "hash2") =>
          /\ DOMAIN hashes1 = SeqToSet(common)
          /\ DOMAIN hashes2 = SeqToSet(common)

\* calculate_hashes has just returned the digests of two members of source 1.
C14_Witness ==
    /\ pc = "hash2" /\ Len(common) = 2
    /\ Cardinality(DOMAIN hashes1) = 2

\* C15: the result dict has one writer: a step in which a worker's task ends
\* leaves the dict as it is, the dict holds exactly the digests of the futures
\* collected so far, and each key has the digest its own task returned.
C15_SingleWriter ==
    /\ [](\A k \in DOMAIN hashes :
              k \in DOMAIN futures /\ futures[k] = <<"ok", hashes[k]>>)
    /\ [](pc \in {"collect1", "collect2"} =>
              DOMAIN hashes = {common[j] : j \in 1..collected})
    /\ [][(\E rel \in DOMAIN futures :
               /\ IsRunning(futures[rel])
               /\ rel \in DOMAIN futures' /\ IsDone(futures'[rel]))
            => hashes' = hashes]_vars

\* Two members with different digests have been hashed and inserted.
C15_Witness ==
    /\ pc \in {"collect1", "collect2"} /\ collected = 2
    /\ hashes[common[1]] # hashes[common[2]]

\* C16: at no moment are more tasks being run than the pool has threads,
\* however many were submitted.
C16_BoundedPool == Cardinality(Busy) <= PoolSize

\* Every thread of the pool runs a task while another task waits in the queue.
C16_Witness ==
    /\ Cardinality(Busy) = PoolSize
    /\ \E rel \in DOMAIN futures : IsPending(futures[rel])

\* C17: the progress widgets are written by the UI thread only: the updates
\* of the background run are handed over to it.
C17_ProgressOnUiThread == pb_thread = UiThread

C19_ListingUnique ==
    (pc = "list2" /\ stable /\ src[1].kind = "dir") =>
        /\ Cardinality(files1) = Cardinality(DOMAIN src[1].files)
        /\ \A p, q \in DOMAIN src[1].files : RelKey(p) = RelKey(q) => p = q

\* The bytes of member rel of source s.
MemberBytes(s, rel) ==
    IF s.kind = "dir" THEN s.files[JoinPath(rel)]
    ELSE ArchiveRead(s.entries, {rel})[rel]

\* C20: after a copy_files call that raised nothing, every selected path is a
\* file of the target that holds the bytes of the source's member, whether or
\* not the target had the path before.
C20_CopyWrites ==
    (report.from # 0 /\ report.exc = "") =>
        \A j \in DOMAIN report.sel :
            LET p == JoinPath(report.sel[j])
                d == src[Other(report.from)]
            IN /\ p \in DOMAIN d.files
               /\ d.files[p] = MemberBytes(report.before[report.from], report.sel[j])

\* C21: a member's digest is the SHA-256 of its whole content, and the
\* content is read in chunks of at most 8 KiB.
C21_ChunkedRead ==
    \A rel \in DOMAIN futures :
        futures[rel][1] = "ok" =>
            LET digest == futures[rel][2]
                data == digest[2]
            IN /\ digest = Sha256(data)
               /\ \A k \in DOMAIN ReadCalls(data) : ReadCalls(data)[k] <= 8 * 1024

\* Strictly rising in str order: sorted, and no row twice.
IsSortedSeq(s) == \A i, j \in DOMAIN s : i < j => KeyLess(s[i], s[j])

\* C22: both lists of every result window are sorted by relative path and
\* have no row twice, so windows that show the same sets show the same lists.
C22_SortedOutput ==
    \A w \in DOMAIN windows :
        /\ IsSortedSeq(windows[w].lb1) /\ IsSortedSeq(windows[w].lb2)
        /\ \A v \in DOMAIN windows :
              /\ RowsOf(windows[v].lb1) = RowsOf(windows[w].lb1)
                    => windows[v].lb1 = windows[w].lb1
              /\ RowsOf(windows[v].lb2) = RowsOf(windows[w].lb2)
                    => windows[v].lb2 = windows[w].lb2

\* A window whose two lists have two rows each.
C22_Witness ==
    \E w \in DOMAIN windows : Len(windows[w].lb1) = 2 /\ Len(windows[w].lb2) = 2

\* The place of a step of run_compare in the pipeline.
PipelineRank(step) ==
    CASE step = "list1" -> 1 [] step = "list2" -> 2
      [] step \in {"hash1", "collect1", "shutdown1"} -> 3
      [] step \in {"hash2", "collect2", "shutdown2"} -> 4
      [] step = "finish" -> 5 [] step = "done" -> 6
      [] OTHER -> 0

\* The result of the current run has been handed to the UI thread.
Delivered ==
    \/ \E k \in DOMAIN after : after[k].run = nruns
    \/ \E w \in DOMAIN windows : windows[w].run = nruns

\* C23: a run is a straight pipeline: it never steps back; no hashing exists
\* before both listings are done; source 2 is not hashed before the digests
\* of source 1 are complete; and the result is handed over only when the
\* hashing and the comparison are done.
C23_Pipeline ==
    /\ [][pc' # pc =>
            \/ pc' = "dead"
            \/ ~Running /\ pc' = "list1"
            \/ PipelineRank(pc') >= PipelineRank(pc) /\ pc' \notin {"idle", "list1"}]_vars
    /\ [](pc = "list1" => files2 = {})
    /\ [](pc \in {"list1", "list2"} =>
            futures = EmptyFn /\ hashes1 = EmptyFn /\ hashes2 = EmptyFn)
    /\ [](PipelineRank(pc) = 3 => hashes2 = EmptyFn)
    /\ [](pc \in {"collect2", "shutdown2"} => DOMAIN hashes1 = SeqToSet(common))
    /\ [](Delivered =>
            /\ pc = "done"
            /\ compare_hash =>
                  /\ DOMAIN hashes1 = SeqToSet(common)
                  /\ DOMAIN hashes2 = SeqToSet(common)
                  /\ Finished = DOMAIN futures
                  /\ Mismatched(common, hashes1, hashes2) \subseteq only1 \cap only2)

\* A hash-mode run over two common members, one of them a mismatch, has handed
\* over its result and the window is shown.
C23_Witness ==
    /\ pc = "done" /\ compare_hash /\ Len(common) = 2
    /\ Cardinality(Mismatched(common, hashes1, hashes2)) = 1
    /\ \E w \in DOMAIN windows : windows[w].run = nruns

\* The results of run n that were handed to the UI thread.
ResultsOf(n) ==
    Cardinality({k \in DOMAIN after : after[k].run = n})
      + Cardinality({w \in DOMAIN windows : windows[w].run = n})

\* C24: under fair scheduling every started run either ends by an exception
\* of a listing or hashing step or has its result window shown; no run hands
\* over more than one result; and within one calculate_hashes call a member
\* has one task, which is run once.
C24_DeliversOnce ==
    /\ \A n \in 1..MaxClicks :
          (nruns = n /\ Running)
            ~> \/ nruns = n /\ pc = "dead"
               \/ \E w \in DOMAIN windows : windows[w].run = n
    /\ [](\A n \in 1..MaxClicks : ResultsOf(n) <= 1)
    /\ [](DOMAIN futures \subseteq SeqToSet(common))
    /\ [][(PipelineRank(pc) \in {3, 4} /\ PipelineRank(pc') = PipelineRank(pc)
              /\ pc' \notin {"hash1", "hash2"} /\ pc \notin {"hash1", "hash2"})
           => \A rel \in DOMAIN futures :
                 /\ rel \in DOMAIN futures'
                 /\ IsDone(futures[rel]) => futures'[rel] = futures[rel]
                 /\ IsRunning(futures[rel]) => ~IsPending(futures'[rel])]_vars

\* Two runs were started one after the other, and each has its one window.
C24_Witness ==
    /\ nruns = 2 /\ pc = "done" /\ after = <<>>
    /\ ResultsOf(1) = 1 /\ ResultsOf(2) = 1
    /\ \E w \in DOMAIN windows : windows[w].hash /\ windows[w].lb1 # <<>>

\* The result windows of the run whose locals are still in place.
CurrentWindows == {w \in DOMAIN windows : pc = "done" /\ windows[w].run = nruns}

\* C26: in every result shown, the paths listed on both sides are exactly the
\* paths of both listings whose digests differ (hash mode) or none (name
\* mode), and the two totals are the sizes of the two listings.
C26_ResultShape ==
    \A w \in CurrentWindows :
        LET both == RowsOf(windows[w].lb1) \cap RowsOf(windows[w].lb2)
        IN /\ windows[w].hash = compare_hash
           /\ both = IF compare_hash
                       THEN {f \in files1 \cap files2 : hashes1[f] # hashes2[f]}
                       ELSE {}
           /\ windows[w].total1 = Cardinality(files1)
           /\ windows[w].total2 = Cardinality(files2)

\* A hash-mode result with a mismatched path on both sides and a path of
\* equal bytes that is counted in the totals only.
C26_Witness ==
    \E w \in CurrentWindows :
        /\ windows[w].hash
        /\ RowsOf(windows[w].lb1) \cap RowsOf(windows[w].lb2) # {}
        /\ windows[w].total1 > Len(windows[w].lb1)
        /\ windows[w].total2 > Len(windows[w].lb2)

\* The target paths of the rows selected in the last copy_files call.
SelectedPaths == {JoinPath(report.sel[j]) : j \in DOMAIN report.sel}

\* C27: a copy_files call leaves the source as it was and changes on the
\* target side only the files of the selected paths and their missing parent
\* directories; every other target file keeps its content.
C27_CopyFrame ==
    report.from # 0 =>
        LET was == report.before[Other(report.from)]
            now == src[Other(report.from)]
        IN /\ src[report.from] = report.before[report.from]
           /\ \A q \in (DOMAIN was.files \cup DOMAIN now.files) \ SelectedPaths :
                 /\ q \in DOMAIN was.files /\ q \in DOMAIN now.files
                 /\ now.files[q] = was.files[q]
           /\ was.dirs \subseteq now.dirs
           /\ now.dirs \ was.dirs \subseteq UNION {Parents(p) : p \in SelectedPaths}

\* What one run alone delivers for the sources as they are now: the listing
\* differences, and in hash mode the common keys whose bytes differ.
AloneOnly(i, mode) ==
    LET mine == list_all_files(src[i]).val
        theirs == list_all_files(src[Other(i)]).val
    IN (mine \ theirs)
         \cup (IF mode
                THEN {f \in mine \cap theirs :
                        MemberBytes(src[1], f) # MemberBytes(src[2], f)}
                ELSE {})

\* The sources are as they were throughout the run that window w shows.
Current(w) == windows[w].fresh /\ windows[w].epoch = ncopies

\* C25: whether or not its run overlapped another run, a result window shows
\* what a run alone on the two sources delivers in its mode: the difference
\* sets and the totals of the listings.
C25_RunsIndependent ==
    \A w \in DOMAIN windows :
        Current(w) =>
            /\ RowsOf(windows[w].lb1) = AloneOnly(1, windows[w].hash)
            /\ RowsOf(windows[w].lb2) = AloneOnly(2, windows[w].hash)
            /\ windows[w].total1 = Cardinality(list_all_files(src[1]).val)
            /\ windows[w].total2 = Cardinality(list_all_files(src[2]).val)

\* Run 2 was started while run 1 was in progress and delivered first; the
\* two windows differ, and run 1 compared by hash.
C25_Witness ==
    /\ Len(windows) = 2
    /\ windows[1].run = 2 /\ windows[2].run = 1
    /\ Current(1) /\ Current(2)
    /\ windows[2].hash /\ ~windows[1].hash
    /\ windows[1].lb1 # windows[2].lb1

\* C30: every requested name is either found or missing, never both; the
\* totals add up, Found + Missing = Total requested, also for a list that
\* repeats a name; and the found path of a name is the first file of that
\* name in the walk, every later one being a duplicate.
C30_CheckerTotals ==
    result_text.shown =>
        /\ \A n \in DOMAIN result_text.found_files \cup SeqToSet(result_text.missing_files) :
              ~(n \in DOMAIN result_text.found_files
                  /\ n \in SeqToSet(result_text.missing_files))
        /\ result_text.found + result_text.missing = result_text.total
        /\ \A i, j \in DOMAIN result_text.walked :
              LET n == Last(result_text.walked[j])
              IN (i < j /\ Last(result_text.walked[i]) = n
                    /\ n \in DOMAIN result_text.found_files)
                   => /\ result_text.found_files[n] # result_text.walked[j]
                      /\ \E k \in DOMAIN result_text.dups[n] :
                            result_text.dups[n][k] = result_text.walked[j]

\* The rows met when climbing from row j along parent_id.
RECURSIVE Up(_, _, _)
Up(t, j, seen) ==
    IF j = NoneId \/ j \notin DOMAIN t \/ j \in seen THEN seen
    ELSE Up(t, t[j].parent_id, seen \cup {j})

Ancestors(t, i) == Up(t, t[i].parent_id, {})

\* C28: the parent_id relation of feature_mappings is acyclic: no feature is
\* its own ancestor.
C28_Acyclic ==
    \A i \in DOMAIN feature_mappings : i \notin Ancestors(feature_mappings, i)

\* Feature f and the rows below it.
SubTree(t, f) == {f} \cup {i \in DOMAIN t : f \in Ancestors(t, i)}

\* C29: after a confirmed removal of feature f that did not raise, f and its
\* descendants are gone, no remaining row names a removed row as its parent,
\* and the rows outside f's sub-tree are as before; after one that raised,
\* the table is as before.
C29_RemoveSubtree ==
    last_removal.fid # NoneId =>
        LET b == last_removal.before
            gone == SubTree(b, last_removal.fid)
        IN IF last_removal.raised
             THEN feature_mappings = b
             ELSE /\ DOMAIN feature_mappings = DOMAIN b \ gone
                  /\ \A i \in DOMAIN feature_mappings :
                        /\ feature_mappings[i] = b[i]
                        /\ feature_mappings[i].parent_id \notin gone

\* A feature with a sub-feature was removed, and another feature remains.
C29_Witness ==
    /\ last_removal.fid # NoneId /\ ~last_removal.raised
    /\ Len(last_removal.deleted) = 2
    /\ feature_mappings # EmptyFn

====
